---- MODULE Spec2Model ----
(***************************************************************************)
(* Decebalus backend: the job subsystem.                                   *)
(*                                                                         *)
(* The model covers the job store, the global semaphore, the admission     *)
(* scheduler (run_queue), the per-job executor (execute_job), the          *)
(* scheduled dispatcher (check_and_run_scheduled_jobs), crash recovery     *)
(* (resume_incomplete_jobs) and the HTTP handlers that create, schedule    *)
(* and cancel jobs.  Every repository call is an await point of the        *)
(* source, so every repository call is one step of the model.              *)
(***************************************************************************)
EXTENDS Integers, Sequences, FiniteSets, TLC

(* ------------------------------ bounds --------------------------------- *)

\* Number of job rows the store ever holds: the rows found at process start
\* and the jobs created afterwards.
MaxJobs == 2

\* Largest capacity of the semaphore of discover_hosts (MAX_DISCOVER_THREADS
\* is read from the environment; every capacity 1..MaxDiscoverThreads is
\* explored).
MaxDiscoverThreads == 2

\* Largest capacity of the global semaphore (MAX_THREADS is read from the
\* environment; every capacity 1..MaxThreads is explored).
MaxThreads == 2

\* Largest number of cancel_job handlers between their read and their write.
MaxCancels == 1

\* The wall clock runs from 0 to MaxTime.
MaxTime == 1

\* Discovery runs and port-scan runs in the runs of the runners.
MaxDiscoveries == 2

MaxScans == 1

\* The capacity of the broadcast channel (100 in the program) and the
\* messages sent in the runs of the channel.
BusCapacity == 2

MaxSent == 6

(* ------------------------------ values --------------------------------- *)

JobIds == 1..MaxJobs

\* Option::None of results.
None == "null"

\* Option<i64> of scheduled_at: the empty sequence is None, <<t>> is Some(t).
NoTime == <<>>

SomeTime(t) == <<t>>

Priorities == {"LOW", "NORMAL", "HIGH", "CRITICAL"}

Statuses == {"queued", "scheduled", "running", "completed", "failed", "cancelled"}

\* A row that has not been inserted yet.
Absent == "absent"

Terminal == {"completed", "failed", "cancelled"}

\* Statuses a row may be found in when the process starts.
SeedStatuses == {"queued", "scheduled", "running"}

\* Values a request may carry in scheduled_at.
SchedTimes == {SomeTime(t) : t \in 1..MaxTime}

\* Values of jobs.job_type: the four types execute_job knows and one it
\* does not.
JobTypes == {"discovery", "port-scan", "nmap-scan", "export", "ping"}

\* A request body without the job_type field.
Omitted == "omitted"

\* Option<String> of target: the empty sequence is None, <<t>> is Some(t).
NoTarget == <<>>

SomeTarget(t) == <<t>>

\* The text of a target: an address (told by its first octet) and the prefix
\* length after the slash, -1 when the text has no slash part.
Targets ==
    {SomeTarget([octet |-> 10, prefix |-> 24]), SomeTarget([octet |-> 256, prefix |-> 24]),
     SomeTarget([octet |-> 10, prefix |-> 33]), SomeTarget([octet |-> 10, prefix |-> -1])}

\* Bodies of POST /api/jobs and of the schedule request.
Requests ==
    [job_type : JobTypes \cup {Omitted},
     target : Targets \cup {NoTarget},
     scheduled_at : SchedTimes \cup {NoTime}]

\* No 4xx answer yet.
NoAnswer == <<>>

\* The well-formed discovery requests.
DiscoveryRequests ==
    {r \in Requests : /\ r.job_type = "discovery"
                       /\ r.target = SomeTarget([octet |-> 10, prefix |-> 24])}

\* Positions of an executor task.
\*   requeue     the recovery wrapper, before its write of "queued"
\*   get_job     execute_job before the admission re-read
\*   admitted    the re-read status was queued or scheduled
\*   runner      "running" was written, the runner is in progress
\*   ok_results  "completed" was written, results not yet
\*   err_results "failed" was written, results not yet
\* The addresses of the networks: one host address in each network.
Networks == {"192.168.68.0/24", "10.0.0.0/24"}

network_hosts(network) ==
    CASE network = "192.168.68.0/24" -> <<"192.168.68.1">>
      [] network = "10.0.0.0/24" -> <<"10.0.0.1">>
      [] OTHER -> <<"172.16.0.1", "172.16.0.2", "172.16.0.3">>

Ips == {"192.168.68.1", "10.0.0.1"}

\* Port numbers, protocols and port statuses the calls are made with.
PortNumbers == {22, 80}

Protocols == {"tcp", "udp"}

PortStatuses == {"open", "closed"}

\* The protocol strings in the order of String::cmp.
StringOrder == <<"http", "ssh", "tcp", "udp">>

\* Banners as add_banner receives them.
Banners == {"", "Apache", "SSH-2.0"}

\* The network run_discovery falls back to.
default_target_network == "192.168.68.0/24"

\* The ports scanned, in the order of common_ports.
common_ports == <<80, 22>>

\* What a read on a connected port returns: nothing (n = 0, an error or the
\* timeout) or the bytes read, as lines of tokens; " " is white space.
NoReply == <<>>

SomeReply(raw) == <<raw>>

Replies == {NoReply, SomeReply(<< <<" ">> >>),
            SomeReply(<< <<" ", "SSH-2.0", " ">>, <<>>, <<"OpenSSH">> >>)}

\* The message of a port scan without hosts.
no_hosts_message == "No hosts available to scan. Run discovery first."

\* Option<Host>.
NoHost == <<>>

SomeHost(h) == <<h>>

ExecPcs == {"requeue", "get_job", "admitted", "runner", "ok_results", "err_results"}

ExecStates == JobIds \X ExecPcs

VARIABLES
    status,        \* jobs.status, Absent for a row not inserted yet
    priority,      \* jobs.priority
    results,       \* jobs.results: None, "payload" or "error"
    scheduled_at,  \* jobs.scheduled_at: NoTime or SomeTime(epoch)
    now,           \* wall clock
    max_threads,   \* AppState.max_threads, the capacity of the semaphore
    permits,       \* available permits of AppState.semaphore
    execs,         \* live executor tasks: how many per (job, position)
    passes,        \* the run_queue task spawned by the creation of each job
    disp,          \* the scheduled dispatcher loop
    rec,           \* resume_incomplete_jobs
    cancels,       \* cancel_job handlers between their read and their write
    wroteRunning,  \* jobs whose current status was written by an executor as "running"
    job_type,      \* jobs.job_type
    receivers,     \* receivers subscribed to AppState.broadcaster
    bus,           \* per job, the messages about it the broadcaster accepted, in order
    rejected,      \* the last 4xx answer given, as <<handler, code>>
    cancelled_queued,  \* jobs cancelled while "queued" whose status no executor has written since
    hosts,         \* the hosts table: per ip, NoHost or SomeHost(row)
    host,          \* a Host value the calls of its methods are made on
    net,           \* the network: the open ports of each address, the reply on each port
    config,        \* the stored configuration: scan_config.target_network, port_range
    disc,          \* the runner of a discovery job
    scan,          \* the runner of a port-scan job
    chan,          \* the broadcast channel: the number of messages sent into it
    ws             \* the /ws connection: its state, the receiver's position, the messages forwarded

\* The variables of the host store, the runners and the event channel.
sub_vars == <<hosts, host, net, config, disc, scan, chan, ws>>

vars == <<status, priority, results, scheduled_at, now, max_threads, permits,
          execs, passes, disp, rec, cancels, wroteRunning, job_type, receivers,
          bus, rejected, cancelled_queued, sub_vars>>

(* --------------------------- pure functions ---------------------------- *)

\* The integer a priority is stored as.
priority_int(p) ==
    CASE p = "LOW" -> 0
      [] p = "NORMAL" -> 1
      [] p = "HIGH" -> 2
      [] p = "CRITICAL" -> 3

\* The store stamps created_at at insertion; ids number the rows in
\* insertion order.
created_at(j) == j

\* All orders a query without ORDER BY may return the rows of S in.
RowOrders(S) ==
    {s \in [1..Cardinality(S) -> S] : \A a, b \in 1..Cardinality(S) : a # b => s[a] # s[b]}

\* The comparator that run_queue passes to sort_by.
sort_cmp_all_equal(a, b) == "Equal"

sort_cmp(a, b) ==
    CASE a = "CRITICAL" /\ b \in {"LOW", "NORMAL", "HIGH"} -> "Less"
      [] a = "HIGH" /\ b = "CRITICAL" -> "Greater"
      [] a = "NORMAL" /\ b = "CRITICAL" -> "Greater"
      [] a = "LOW" /\ b = "CRITICAL" -> "Greater"
      [] OTHER -> "Equal"

\* Stable insertion of job x into the sorted sequence s: x goes after every
\* element that does not compare Greater than it.
RECURSIVE sort_insert(_, _)
sort_insert(s, x) ==
    IF s = <<>> THEN <<x>>
    ELSE IF sort_cmp(priority[Head(s)], priority[x]) = "Greater"
         THEN <<x>> \o s
         ELSE <<Head(s)>> \o sort_insert(Tail(s), x)

\* Vec::sort_by: a stable sort.
RECURSIVE sort_by(_)
sort_by(s) ==
    IF s = <<>> THEN <<>>
    ELSE sort_insert(sort_by(SubSeq(s, 1, Len(s) - 1)), s[Len(s)])

\* The admission check of execute_job.
Admissible_queued_only(s) == s = "queued"

Admissible_any(s) == TRUE

Admissible(s) == s \in {"queued", "scheduled"}

\* cancel_job's check.
Cancellable(s) == s \in {"queued", "running"}

\* serde's default for a missing job_type.
default_job_type == "discovery"

\* Deserialization of a request body into CreateJobRequest.
CreateJobRequest(body) ==
    [job_type |-> IF body.job_type = Omitted THEN default_job_type ELSE body.job_type,
     target |-> body.target,
     scheduled_at |-> body.scheduled_at]

\* cidr.parse::<IpNet>() succeeds: an address, a slash and a prefix length
\* of at most 32.
validate_cidr_any(cidr) == TRUE

validate_cidr(cidr) == cidr.octet \in 0..255 /\ cidr.prefix \in 0..32

\* parse_job_from_request: Err(400) for a discovery request whose target is
\* missing or not a CIDR, otherwise the job Job::new builds, with the
\* request's scheduled_at.
parse_job_from_request(payload) ==
    IF payload.job_type = "discovery"
       /\ (payload.target = NoTarget \/ ~validate_cidr(payload.target[1]))
    THEN [ok |-> FALSE, job_type |-> payload.job_type, status |-> "queued",
          priority |-> "NORMAL", results |-> None, scheduled_at |-> NoTime]
    ELSE [ok |-> TRUE, job_type |-> payload.job_type, status |-> "queued",
          priority |-> "NORMAL", results |-> None,
          scheduled_at |-> payload.scheduled_at]

\* The terminal status execute_job writes for the runner's Ok or Err.
terminal_status_completed(ok) == "completed"

terminal_status(ok) == IF ok THEN "completed" ELSE "failed"

\* The results a runner may return for a job of type t: TRUE stands for Ok,
\* FALSE for Err.  run_nmap_scan always returns Ok, an unknown type is Err.
runner_returns_any(t) == BOOLEAN

runner_returns(t) ==
    CASE t \in {"discovery", "port-scan", "export"} -> BOOLEAN
      [] t = "nmap-scan" -> {TRUE}
      [] OTHER -> {FALSE}

\* The string the runner returned.
runner_output(t, ok) ==
    CASE t = "nmap-scan" /\ ok -> "not_implemented"
      [] t \in {"discovery", "port-scan", "export"} /\ ok -> "payload"
      [] t \in {"discovery", "port-scan", "export"} /\ ~ok -> "error"
      [] OTHER -> "Unknown job type: " \o t

(* -------------------------------- Host -------------------------------- *)

\* Host::new: no ports, no banners.
Host_new(ip) == [ip |-> ip, ports |-> <<>>, banners |-> <<>>]

\* String::cmp on protocols.
str_cmp(a, b) ==
    LET rank(x) == CHOOSE i \in 1..Len(StringOrder) : StringOrder[i] = x IN
    IF rank(a) < rank(b) THEN "Less" ELSE IF rank(a) > rank(b) THEN "Greater" ELSE "Equal"

\* The comparator of the sort in add_port: number, then protocol.
port_cmp_by_number(a, b) ==
    IF a.number < b.number THEN "Less"
    ELSE IF a.number > b.number THEN "Greater"
    ELSE "Equal"

port_cmp(a, b) ==
    IF a.number < b.number THEN "Less"
    ELSE IF a.number > b.number THEN "Greater"
    ELSE str_cmp(a.protocol, b.protocol)

\* Vec::sort_by with that comparator, a stable sort.
RECURSIVE ports_sort_insert(_, _)
ports_sort_insert(s, x) ==
    IF s = <<>> THEN <<x>>
    ELSE IF port_cmp(x, s[Len(s)]) = "Less"
         THEN Append(ports_sort_insert(SubSeq(s, 1, Len(s) - 1), x), s[Len(s)])
         ELSE Append(s, x)

RECURSIVE ports_sort_by(_)
ports_sort_by(s) ==
    IF s = <<>> THEN <<>>
    ELSE ports_sort_insert(ports_sort_by(SubSeq(s, 1, Len(s) - 1)), s[Len(s)])

\* The positions of the entries of ports with that number and protocol.
find_port(ports, number, protocol) ==
    {i \in 1..Len(ports) : ports[i].number = number /\ ports[i].protocol = protocol}

\* Host::add_port: the first entry with the number and protocol takes the
\* status, or a new entry is pushed; then the ports are sorted.
add_port(h, number, protocol, st) ==
    LET found == find_port(h.ports, number, protocol)
        first == CHOOSE i \in found : \A k \in found : i <= k
        ports == IF found # {}
                 THEN [h.ports EXCEPT ![first].status = st]
                 ELSE Append(h.ports, [number |-> number, protocol |-> protocol,
                                       status |-> st])
    IN [h EXCEPT !.ports = ports_sort_by(ports)]

\* Vec::contains.
contains_never(s, x) == FALSE

contains(s, x) == \E i \in 1..Len(s) : s[i] = x

\* Host::add_banner.
add_banner(h, banner) ==
    IF ~contains(h.banners, banner)
    THEN [h EXCEPT !.banners = Append(@, banner)]
    ELSE h

(* ------------------------------ runners ------------------------------- *)

\* The network run_discovery scans: scan_config.target_network of the stored
\* configuration, or the default.
run_discovery_target(cfg) ==
    IF cfg.target_network # NoTarget THEN cfg.target_network[1] ELSE default_target_network

\* is_host_alive: a connection to one of the probed ports succeeds.
is_host_alive(ip) ==
    LET probed == <<80, 22>>
    IN \E i \in 1..Len(probed) : probed[i] \in net.open[ip]

\* get_port_range: the port_range of the stored scan_config, or the common
\* ports.
get_port_range(cfg) ==
    IF cfg.port_range # <<>> THEN cfg.port_range[1] ELSE common_ports

\* is_port_open.
is_port_open(ip, port) == port \in net.open[ip]

\* infer_protocol.
infer_protocol(port) ==
    CASE port = 80 -> "http"
      [] port = 22 -> "ssh"
      [] OTHER -> "unknown"

\* str::trim on a line: white space at both ends is dropped.
RECURSIVE trim_start(_)
trim_start(l) == IF l # <<>> /\ Head(l) = " " THEN trim_start(Tail(l)) ELSE l

RECURSIVE trim_end(_)
trim_end(l) ==
    IF l # <<>> /\ l[Len(l)] = " " THEN trim_end(SubSeq(l, 1, Len(l) - 1)) ELSE l

trim(l) == trim_end(trim_start(l))

\* The text of a line.
RECURSIVE concat(_)
concat(l) == IF l = <<>> THEN "" ELSE Head(l) \o concat(Tail(l))

\* join(" | ").
RECURSIVE join(_)
join(ls) ==
    IF ls = <<>> THEN ""
    ELSE IF Len(ls) = 1 THEN ls[1]
    ELSE ls[1] \o " | " \o join(Tail(ls))

\* prettify_banner: the lines trimmed, the empty ones dropped, the first
\* four kept and joined.
prettify_banner(raw) ==
    LET trimmed == [i \in 1..Len(raw) |-> trim(raw[i])]
        kept == SelectSeq(trimmed, LAMBDA l : l # <<>>)
        first4 == SubSeq(kept, 1, IF Len(kept) < 4 THEN Len(kept) ELSE 4)
    IN join([i \in 1..Len(first4) |-> concat(first4[i])])

\* grab_banner: None without bytes read, else the prettified banner.
grab_banner(ip, port) ==
    IF net.reply[port] = NoReply THEN <<>> ELSE <<prettify_banner(net.reply[port][1])>>

\* repository::upsert_host: INSERT ... ON CONFLICT(ip) DO UPDATE SET the
\* columns to the values of the host given.
upsert_host(table, h) == [table EXCEPT ![h.ip] = SomeHost(h)]

\* repository::get_host.
get_host(ip) == hosts[ip]

\* The hosts of the in-memory repository, as the Vec it keeps.
InMemoryRepository_hosts ==
    LET present == {ip \in Ips : hosts[ip] # NoHost}
        order == CHOOSE s \in RowOrders(present) : TRUE
    IN [i \in 1..Len(order) |-> hosts[order[i]][1]]

\* InMemoryRepository::upsert_host.
InMemoryRepository_upsert_host(v, h) ==
    IF \E i \in 1..Len(v) : v[i].ip = h.ip
    THEN LET i == CHOOSE k \in 1..Len(v) : v[k].ip = h.ip /\ \A m \in 1..(k - 1) : v[m].ip # h.ip
         IN [v EXCEPT ![i] = h]
    ELSE Append(v, h)

\* hosts_to_scan.is_empty().
is_empty_never(s) == FALSE

is_empty(s) == s = <<>>

(* ------------------------------ queries -------------------------------- *)

get_queued_jobs == {j \in JobIds : status[j] = "queued"}

get_running_jobs == {j \in JobIds : status[j] = "running"}

get_scheduled_jobs_due(t) ==
    {j \in JobIds : status[j] = "scheduled" /\ scheduled_at[j] # NoTime /\ scheduled_at[j][1] <= t}

(* ----------------------- in-memory repository -------------------------- *)

\* InMemoryRepository.jobs: the Vec of rows in insertion order, each row
\* named by its id.
InMemoryRepository_jobs == [i \in 1..Cardinality({j \in JobIds : status[j] # Absent}) |-> i]

\* InMemoryRepository::create_job pushes the row; it returns Ok(()).
InMemoryRepository_create_job(jobs, id) == Append(jobs, id)

\* InMemoryRepository::get_scheduled_jobs_due
InMemoryRepository_get_scheduled_jobs_due(t) ==
    {j \in JobIds : status[j] = "scheduled" /\ scheduled_at[j] # NoTime /\ scheduled_at[j][1] < t}

(* ------------------------------ helpers -------------------------------- *)

NoPass == [pc |-> "none", snap |-> <<>>, k |-> 0]

RECURSIVE SumExecs(_)
SumExecs(S) ==
    IF S = {} THEN 0
    ELSE LET e == CHOOSE x \in S : TRUE IN execs[e] + SumExecs(S \ {e})

\* Number of live executor tasks.
NumExecs == SumExecs(ExecStates)

\* Number of live executor tasks working on job j.
ExecsOn(j) == SumExecs({e \in ExecStates : e[1] = j})

\* broadcaster.send(msg): the channel takes the message when a receiver is
\* subscribed, and answers Err (which every caller ignores) when none is.
send(j, msg) == IF receivers > 0 THEN [bus EXCEPT ![j] = Append(@, msg)] ELSE bus

\* tokio::spawn of an executor task for job j at position pc.
Spawned(j, pc) == [execs EXCEPT ![<<j, pc>>] = @ + 1]

\* An executor task for job j goes from position a to position b.
Moved(j, a, b) == [execs EXCEPT ![<<j, a>>] = @ - 1, ![<<j, b>>] = @ + 1]

\* An executor task for job j at position a ends.
Ended(j, a) == [execs EXCEPT ![<<j, a>>] = @ - 1]

(* ------------------------------- Init ---------------------------------- *)

\* The jobs table, the semaphore and the tasks after construction, with r
\* receivers subscribed to the broadcaster.
JobInit(r) ==
    /\ \E n \in 0..MaxJobs :
         /\ status \in [JobIds -> SeedStatuses \cup {Absent}]
         /\ \A j \in JobIds : status[j] # Absent <=> j <= n
         /\ priority \in [JobIds -> Priorities]
         /\ \A j \in JobIds : j > n => priority[j] = "NORMAL"
         /\ scheduled_at \in [JobIds -> SchedTimes \cup {NoTime}]
         /\ \A j \in JobIds : status[j] # "scheduled" => scheduled_at[j] = NoTime
    /\ results = [j \in JobIds |-> None]
    /\ now = 0
    /\ max_threads \in 1..MaxThreads
    /\ permits = max_threads
    /\ execs = [e \in ExecStates |-> 0]
    /\ passes = [j \in JobIds |-> NoPass]
    /\ disp = [pc |-> "sleep", q |-> <<>>]
    /\ rec = [pc |-> "start", q |-> <<>>, found |-> {}]
    /\ cancels = {}
    /\ wroteRunning = {}
    /\ job_type = [j \in JobIds |-> "discovery"]
    /\ receivers = r
    /\ bus = [j \in JobIds |-> <<>>]
    /\ rejected = NoAnswer
    /\ cancelled_queued = {}

\* An empty hosts table.
NoHosts == [ip \in Ips |-> NoHost]

\* The host store and the Host value under the calls, with nothing done.
NoDisc == [pc |-> "idle", job_target |-> NoTarget, network |-> default_target_network,
           q |-> <<>>, hosts_found |-> 0, target_network |-> None, runs |-> 0,
           max_discover_threads |-> 1, sem |-> 0, tasks |-> <<>>, locked |-> FALSE,
           count |-> 0, sent |-> <<>>]

NoScan == [pc |-> "idle", hosts_to_scan |-> <<>>, i |-> 0, p |-> 0, open_ports |-> <<>>,
           fetched |-> NoHost, banners |-> {}, total |-> 0, upserts |-> 0,
           refreshed |-> {},
           progress |-> <<>>, result |-> <<>>, runs |-> 0]

NoSocket == [state |-> "none", next |-> 0, got |-> <<>>, lagged |-> 0]

SubIdle ==
    /\ hosts = NoHosts
    /\ host = Host_new("10.0.0.1")
    /\ net = [open |-> [ip \in Ips |-> {}], reply |-> [port \in {80, 22} |-> NoReply]]
    /\ config = [target_network |-> NoTarget, port_range |-> <<>>]
    /\ disc = NoDisc
    /\ scan = NoScan
    /\ chan = [sent |-> 0]
    /\ ws = NoSocket

\* The state after construction.
InitWith(r) == JobInit(r) /\ SubIdle

\* No WebSocket client is connected.
Init == InitWith(0)

(* --------------------------- the semaphore ----------------------------- *)

\* Semaphore::try_acquire_owned succeeds / acquire_owned returns.
permit_available_always == TRUE

permit_available == permits > 0

\* The permit an executor task owns is dropped when the task ends.
drop_permit_leaked == permits

drop_permit == permits + 1

(* ------------------------ execute_job (executor) ----------------------- *)

\* The recovery wrapper writes "queued" before it calls execute_job.
resume_task_no_requeue(j) ==
    /\ execs[<<j, "requeue">>] > 0
    /\ execs' = Moved(j, "requeue", "get_job")
    /\ UNCHANGED <<status, cancelled_queued, wroteRunning, priority, job_type, receivers,
                   sub_vars, rejected, bus, results, scheduled_at, now, max_threads,
                   permits, passes, disp, rec, cancels>>

resume_task_requeue(j) ==
    /\ execs[<<j, "requeue">>] > 0
    /\ status' = [status EXCEPT ![j] = "queued"]
    /\ cancelled_queued' = cancelled_queued \ {j}
    /\ wroteRunning' = wroteRunning \ {j}
    /\ execs' = Moved(j, "requeue", "get_job")
    /\ UNCHANGED <<priority, job_type, receivers, sub_vars, rejected, bus, results, scheduled_at,
                   now, max_threads, permits, passes, disp, rec, cancels>>

\* The start message, repository::get_job and the admission check; a task
\* that is not admitted returns and drops its permit.
execute_job_get(j) ==
    /\ execs[<<j, "get_job">>] > 0
    /\ bus' = send(j, <<"starting", j>>)
    /\ IF Admissible(status[j])
       THEN /\ execs' = Moved(j, "get_job", "admitted")
            /\ UNCHANGED permits
       ELSE /\ execs' = Ended(j, "get_job")
            /\ permits' = drop_permit
    /\ UNCHANGED <<status, priority, job_type, receivers, cancelled_queued, sub_vars, rejected, results,
                   scheduled_at, now, max_threads, passes, disp, rec, cancels,
                   wroteRunning>>

\* update_job_status(id, "running") and the job_running message; the
\* outcome of the send is dropped (`let _ =`).
execute_job_running_send_checked(j) ==
    /\ execs[<<j, "admitted">>] > 0
    /\ status' = [status EXCEPT ![j] = "running"]
    /\ cancelled_queued' = cancelled_queued \ {j}
    /\ wroteRunning' = wroteRunning \cup {j}
    /\ bus' = send(j, <<"job_running", j>>)
    /\ IF receivers > 0
       THEN /\ execs' = Moved(j, "admitted", "runner")
            /\ UNCHANGED permits
       ELSE /\ execs' = Ended(j, "admitted")
            /\ permits' = drop_permit
    /\ UNCHANGED <<priority, job_type, receivers, sub_vars, rejected, results, scheduled_at,
                   now, max_threads, passes, disp, rec, cancels>>

execute_job_running(j) ==
    /\ execs[<<j, "admitted">>] > 0
    /\ status' = [status EXCEPT ![j] = "running"]
    /\ cancelled_queued' = cancelled_queued \ {j}
    /\ wroteRunning' = wroteRunning \cup {j}
    /\ bus' = send(j, <<"job_running", j>>)
    /\ execs' = Moved(j, "admitted", "runner")
    /\ UNCHANGED <<priority, job_type, receivers, sub_vars, rejected, results, scheduled_at,
                   now, max_threads, permits, passes, disp, rec, cancels>>

\* The runner returns Ok or Err and the terminal status is written.
execute_job_status(j) ==
    /\ execs[<<j, "runner">>] > 0
    /\ \E ok \in runner_returns(job_type[j]) :
         /\ status' = [status EXCEPT ![j] = terminal_status(ok)]
         /\ execs' = Moved(j, "runner", IF ok THEN "ok_results" ELSE "err_results")
    /\ cancelled_queued' = cancelled_queued \ {j}
    /\ wroteRunning' = wroteRunning \ {j}
    /\ UNCHANGED <<priority, job_type, receivers, sub_vars, rejected, bus, results, scheduled_at,
                   now, max_threads, permits, passes, disp, rec, cancels>>

\* update_job_results and the job_completed or job_failed message, then the
\* task ends and its permit is dropped.
execute_job_results_unsent(j) ==
    /\ \E pc \in {"ok_results", "err_results"} :
         /\ execs[<<j, pc>>] > 0
         /\ results' = [results EXCEPT ![j] = runner_output(job_type[j], pc = "ok_results")]
         /\ execs' = Ended(j, pc)
    /\ permits' = drop_permit
    /\ UNCHANGED <<status, priority, job_type, receivers, cancelled_queued, sub_vars, rejected,
                   scheduled_at, now, max_threads, passes, disp, rec, cancels, wroteRunning,
                   bus>>

execute_job_results(j) ==
    /\ \E pc \in {"ok_results", "err_results"} :
         /\ execs[<<j, pc>>] > 0
         /\ results' = [results EXCEPT ![j] = runner_output(job_type[j], pc = "ok_results")]
         /\ bus' = send(j, IF pc = "ok_results"
                           THEN <<"job_completed", j>>
                           ELSE <<"job_failed", j, runner_output(job_type[j], FALSE)>>)
         /\ execs' = Ended(j, pc)
    /\ permits' = drop_permit
    /\ UNCHANGED <<status, priority, job_type, receivers, cancelled_queued, sub_vars, rejected, scheduled_at, now,
                   max_threads, passes, disp, rec, cancels, wroteRunning>>

(* ------------------------------ run_queue ------------------------------ *)

\* get_queued_jobs, the early return on an empty list, and the sort.
run_queue_fetch(p) ==
    /\ passes[p].pc = "spawned"
    /\ \E s \in RowOrders(get_queued_jobs) :
         passes' = [passes EXCEPT ![p] =
                      IF s = <<>> THEN NoPass
                      ELSE [pc |-> "loop", snap |-> sort_by(s), k |-> 0]]
    /\ UNCHANGED <<status, priority, job_type, receivers, cancelled_queued, sub_vars, rejected, bus, results,
                   scheduled_at, now, max_threads, permits, execs, disp, rec,
                   cancels, wroteRunning>>

\* One iteration of the dispatch loop: try_acquire_owned, then spawn or break.
run_queue_step(p) ==
    /\ passes[p].pc = "loop"
    /\ passes[p].k < Len(passes[p].snap)
    /\ LET job == passes[p].snap[passes[p].k + 1] IN
       IF permit_available
       THEN /\ permits' = permits - 1
            /\ execs' = Spawned(job, "get_job")
            /\ passes' = [passes EXCEPT ![p].k = @ + 1]
       ELSE /\ passes' = [passes EXCEPT ![p] = NoPass]
            /\ UNCHANGED <<permits, execs>>
    /\ UNCHANGED <<status, priority, job_type, receivers, cancelled_queued, sub_vars, rejected, bus, results,
                   scheduled_at, now, max_threads, disp, rec, cancels,
                   wroteRunning>>

\* The loop has offered a permit to every job of the snapshot: run_queue
\* returns and its task ends.
run_queue_return(p) ==
    /\ passes[p].pc = "loop"
    /\ passes[p].k = Len(passes[p].snap)
    /\ passes' = [passes EXCEPT ![p] = NoPass]
    /\ UNCHANGED <<status, priority, job_type, receivers, cancelled_queued, sub_vars, rejected, bus, results,
                   scheduled_at, now, max_threads, permits, execs, disp, rec,
                   cancels, wroteRunning>>

(* -------------------- check_and_run_scheduled_jobs --------------------- *)

\* One iteration of the loop begins: the due jobs are fetched.
scheduled_fetch ==
    /\ disp.pc = "sleep"
    /\ get_scheduled_jobs_due(now) # {}
    /\ \E s \in RowOrders(get_scheduled_jobs_due(now)) :
         disp' = [pc |-> "loop", q |-> s]
    /\ UNCHANGED <<status, priority, job_type, receivers, cancelled_queued, sub_vars, rejected, bus, results,
                   scheduled_at, now, max_threads, permits, execs, passes, rec,
                   cancels, wroteRunning>>

\* acquire_owned().await returns and the executor is spawned; the loop
\* sleeps after the last job.
scheduled_acquire ==
    /\ disp.pc = "loop"
    /\ permit_available
    /\ permits' = permits - 1
    /\ execs' = Spawned(Head(disp.q), "get_job")
    /\ disp' = IF Len(disp.q) = 1 THEN [pc |-> "sleep", q |-> <<>>]
               ELSE [pc |-> "loop", q |-> Tail(disp.q)]
    /\ UNCHANGED <<status, priority, job_type, receivers, cancelled_queued, sub_vars, rejected, bus, results,
                   scheduled_at, now, max_threads, passes, rec, cancels,
                   wroteRunning>>

(* ----------------------- resume_incomplete_jobs ------------------------ *)

\* get_running_jobs and the early return on an empty list.
resume_fetch ==
    /\ rec.pc = "start"
    /\ \E s \in RowOrders(get_running_jobs) :
         rec' = [pc |-> IF s = <<>> THEN "done" ELSE "loop",
                 q |-> s, found |-> get_running_jobs]
    /\ UNCHANGED <<status, priority, job_type, receivers, cancelled_queued, sub_vars, rejected, bus, results,
                   scheduled_at, now, max_threads, permits, execs, passes, disp,
                   cancels, wroteRunning>>

\* One iteration: with a permit the wrapper task is spawned, without one the
\* job is written back to "queued".
resume_step ==
    /\ rec.pc = "loop"
    /\ LET job == Head(rec.q) IN
       IF permit_available
       THEN /\ permits' = permits - 1
            /\ execs' = Spawned(job, "requeue")
            /\ UNCHANGED <<status, wroteRunning>>
       ELSE /\ status' = [status EXCEPT ![job] = "queued"]
            /\ wroteRunning' = wroteRunning \ {job}
            /\ UNCHANGED <<permits, execs>>
    /\ rec' = [rec EXCEPT !.q = Tail(rec.q),
                          !.pc = IF Len(rec.q) = 1 THEN "done" ELSE "loop"]
    /\ UNCHANGED <<priority, job_type, receivers, cancelled_queued, sub_vars, rejected, bus, results,
                   scheduled_at, now, max_threads, passes, disp, cancels>>

(* --------------------------- HTTP handlers ----------------------------- *)

\* HTTP traffic is accepted once the recovery procedure has completed.
Serving == rec.pc = "done"

\* The id of the next row.
NextId == CHOOSE j \in JobIds : status[j] = Absent /\ \A i \in JobIds : i < j => status[i] # Absent

\* POST /api/jobs: the job parse_job_from_request built is stored, job_queued
\* is sent and a run_queue task is spawned.
create_job(body) ==
    LET job == parse_job_from_request(CreateJobRequest(body)) IN
    /\ Serving
    /\ \E j \in JobIds : status[j] = Absent
    /\ job.ok
    /\ status' = [status EXCEPT ![NextId] = job.status]
    /\ priority' = [priority EXCEPT ![NextId] = job.priority]
    /\ job_type' = [job_type EXCEPT ![NextId] = job.job_type]
    /\ scheduled_at' = [scheduled_at EXCEPT ![NextId] = job.scheduled_at]
    /\ bus' = send(NextId, <<"job_queued", NextId>>)
    /\ passes' = [passes EXCEPT ![NextId] = [pc |-> "spawned", snap |-> <<>>, k |-> 0]]
    /\ UNCHANGED <<results, now, max_threads, permits, execs, disp, rec, cancels,
                   wroteRunning, receivers, cancelled_queued, sub_vars, rejected>>

\* POST /api/jobs answers 400: parse_job_from_request returned Err.
create_job_rejected(body) ==
    /\ Serving
    /\ ~parse_job_from_request(CreateJobRequest(body)).ok
    /\ rejected' = <<"create_job", 400>>
    /\ UNCHANGED <<status, priority, job_type, receivers, cancelled_queued, sub_vars, bus, results, scheduled_at,
                   now, max_threads, permits, execs, passes, disp, rec, cancels,
                   wroteRunning>>

\* The schedule request answers 400: parse_job_from_request returned Err.
schedule_job_rejected(body) ==
    /\ Serving
    /\ ~parse_job_from_request(CreateJobRequest(body)).ok
    /\ rejected' = <<"schedule_job", 400>>
    /\ UNCHANGED <<status, priority, job_type, receivers, cancelled_queued, sub_vars, bus, results, scheduled_at,
                   now, max_threads, permits, execs, passes, disp, rec, cancels,
                   wroteRunning>>

\* schedule_job: the job is stored as scheduled and job_scheduled is sent;
\* no run_queue task.
schedule_job(body) ==
    LET job == parse_job_from_request(CreateJobRequest(body)) IN
    /\ Serving
    /\ \E j \in JobIds : status[j] = Absent
    /\ job.ok
    /\ status' = [status EXCEPT ![NextId] = "scheduled"]
    /\ priority' = [priority EXCEPT ![NextId] = job.priority]
    /\ job_type' = [job_type EXCEPT ![NextId] = job.job_type]
    /\ scheduled_at' = [scheduled_at EXCEPT ![NextId] = job.scheduled_at]
    /\ bus' = send(NextId, <<"job_scheduled", NextId>>)
    /\ UNCHANGED <<results, now, max_threads, permits, execs, passes, disp, rec,
                   cancels, wroteRunning, receivers, cancelled_queued, sub_vars, rejected>>

\* cancel_job: get_job and the check that the job is queued or running.
cancel_job_get(j) ==
    /\ Serving
    /\ Cardinality(cancels) < MaxCancels
    /\ status[j] # Absent
    /\ Cancellable(status[j])
    /\ cancels' = cancels \cup {j}
    /\ UNCHANGED <<status, priority, job_type, receivers, cancelled_queued, sub_vars, rejected, bus, results,
                   scheduled_at, now, max_threads, permits, execs, passes, disp, rec,
                   wroteRunning>>

\* cancel_job: update_job_status(id, "cancelled") and the job_cancelled
\* message.
cancel_job_update(j) ==
    /\ j \in cancels
    /\ status' = [status EXCEPT ![j] = "cancelled"]
    /\ wroteRunning' = wroteRunning \ {j}
    /\ bus' = send(j, <<"job_cancelled", j>>)
    /\ cancels' = cancels \ {j}
    /\ cancelled_queued' = IF status[j] = "queued"
                           THEN cancelled_queued \cup {j}
                           ELSE cancelled_queued
    /\ UNCHANGED <<priority, job_type, receivers, sub_vars, rejected, results, scheduled_at, now,
                   max_threads, permits, execs, passes, disp, rec>>

(* ------------------------------- time ---------------------------------- *)

Tick ==
    /\ now < MaxTime
    /\ now' = now + 1
    /\ UNCHANGED <<status, priority, job_type, receivers, cancelled_queued, sub_vars, rejected, bus, results,
                   scheduled_at, max_threads, permits, execs, passes, disp, rec,
                   cancels, wroteRunning>>

(* ------------------------------- Next ---------------------------------- *)

\* The spawned tasks, the dispatcher loop, the recovery procedure, the
\* handlers that create jobs, and the clock.
TaskNext ==
    \/ \E j \in JobIds : resume_task_requeue(j)
    \/ \E j \in JobIds : execute_job_get(j)
    \/ \E j \in JobIds : execute_job_running(j)
    \/ \E j \in JobIds : execute_job_status(j)
    \/ \E j \in JobIds : execute_job_results(j)
    \/ \E p \in JobIds : run_queue_fetch(p)
    \/ \E p \in JobIds : run_queue_step(p)
    \/ \E p \in JobIds : run_queue_return(p)
    \/ scheduled_fetch
    \/ scheduled_acquire
    \/ resume_fetch
    \/ resume_step
    \/ \E body \in DiscoveryRequests : create_job(body)
    \/ \E body \in DiscoveryRequests : schedule_job(body)
    \/ Tick

Next ==
    \/ TaskNext
    \/ \E j \in JobIds : cancel_job_get(j)
    \/ \E j \in JobIds : cancel_job_update(j)

Spec == Init /\ [][Next]_vars

(* --------------------------- storage errors ---------------------------- *)

\* get_job answers Ok(None) or Err: execute_job returns and drops its permit.
execute_job_get_err(j) ==
    /\ execs[<<j, "get_job">>] > 0
    /\ bus' = send(j, <<"starting", j>>)
    /\ execs' = Ended(j, "get_job")
    /\ permits' = drop_permit
    /\ UNCHANGED <<status, priority, job_type, receivers, cancelled_queued, sub_vars, rejected, results,
                   scheduled_at, now, max_threads, passes, disp, rec, cancels,
                   wroteRunning>>

\* update_job_status fails: the error is logged and the task goes on.
update_job_status_err(j) ==
    /\ \/ /\ execs[<<j, "requeue">>] > 0
          /\ execs' = Moved(j, "requeue", "get_job")
          /\ UNCHANGED bus
       \/ /\ execs[<<j, "admitted">>] > 0
          /\ execs' = Moved(j, "admitted", "runner")
          /\ bus' = send(j, <<"job_running", j>>)
       \/ /\ execs[<<j, "runner">>] > 0
          /\ \E ok \in runner_returns(job_type[j]) :
               execs' = Moved(j, "runner", IF ok THEN "ok_results" ELSE "err_results")
          /\ UNCHANGED bus
    /\ UNCHANGED <<status, priority, job_type, receivers, cancelled_queued, sub_vars, rejected, results,
                   scheduled_at, now, max_threads, permits, passes, disp, rec,
                   cancels, wroteRunning>>

\* update_job_results fails: the error is logged, the message is sent, the
\* task ends and drops its permit.
update_job_results_err(j) ==
    /\ \E pc \in {"ok_results", "err_results"} :
         /\ execs[<<j, pc>>] > 0
         /\ bus' = send(j, IF pc = "ok_results"
                           THEN <<"job_completed", j>>
                           ELSE <<"job_failed", j, runner_output(job_type[j], FALSE)>>)
         /\ execs' = Ended(j, pc)
    /\ permits' = drop_permit
    /\ UNCHANGED <<status, priority, job_type, receivers, cancelled_queued, sub_vars, rejected, results,
                   scheduled_at, now, max_threads, passes, disp, rec, cancels,
                   wroteRunning>>

ErrNext ==
    \/ TaskNext
    \/ \E j \in JobIds : execute_job_get_err(j)
    \/ \E j \in JobIds : update_job_status_err(j)
    \/ \E j \in JobIds : update_job_results_err(j)

(* ------------------------ fairness, other runs ------------------------ *)

\* The tasks of the runtime are scheduled fairly: every spawned task, the
\* dispatcher loop, the recovery procedure and a handler that has begun all
\* take their next step when it stays possible.  Requests and the clock are
\* the environment's.
Fairness ==
    /\ \A j \in JobIds : WF_vars(resume_task_requeue(j))
    /\ \A j \in JobIds : WF_vars(execute_job_get(j))
    /\ \A j \in JobIds : WF_vars(execute_job_running(j))
    /\ \A j \in JobIds : WF_vars(execute_job_status(j))
    /\ \A j \in JobIds : WF_vars(execute_job_results(j))
    /\ \A p \in JobIds : WF_vars(run_queue_fetch(p))
    /\ \A p \in JobIds : WF_vars(run_queue_step(p))
    /\ \A p \in JobIds : WF_vars(run_queue_return(p))
    /\ WF_vars(scheduled_fetch)
    /\ WF_vars(scheduled_acquire)
    /\ WF_vars(resume_fetch)
    /\ WF_vars(resume_step)
    /\ \A j \in JobIds : WF_vars(cancel_job_update(j))

\* The store of the runs that do not look at priorities: every row carries
\* the default priority.
FairInit ==
    /\ Init
    /\ \A j \in JobIds : priority[j] = "NORMAL"

FairSpec == FairInit /\ [][Next]_vars /\ Fairness

\* The runs in which repository calls of the executor may fail.
ErrSpec == FairInit /\ [][ErrNext]_vars

\* The runs that look at the requests and at the messages: the process
\* starts on an empty store with one permit and a WebSocket client
\* subscribed, requests of every job type arrive with every target, and
\* rejected requests are answered.  No clock and no dispatcher: every
\* request carries the same scheduled_at.
ApiRequests == {r \in Requests : r.scheduled_at = SomeTime(MaxTime)}

ApiNext ==
    \/ \E j \in JobIds : execute_job_get(j)
    \/ \E j \in JobIds : execute_job_running(j)
    \/ \E j \in JobIds : execute_job_status(j)
    \/ \E j \in JobIds : execute_job_results(j)
    \/ \E p \in JobIds : run_queue_fetch(p)
    \/ \E p \in JobIds : run_queue_step(p)
    \/ \E p \in JobIds : run_queue_return(p)
    \/ resume_fetch
    \/ \E body \in ApiRequests : create_job(body)
    \/ \E body \in ApiRequests : create_job_rejected(body)
    \/ \E body \in ApiRequests : schedule_job(body)
    \/ \E body \in ApiRequests : schedule_job_rejected(body)

ApiInit ==
    /\ InitWith(1)
    /\ \A j \in JobIds : status[j] = Absent
    /\ max_threads = 1

ApiSpec == ApiInit /\ [][ApiNext]_vars

\* The same runs with a get_job of the executor that may answer Ok(None) or
\* Err.
ApiErrNext ==
    \/ ApiNext
    \/ \E j \in JobIds : execute_job_get_err(j)

ApiErrSpec == ApiInit /\ [][ApiErrNext]_vars

\* The runs that look at the order of the messages under concurrency: an
\* empty store, a WebSocket client subscribed, MaxThreads permits, jobs
\* created one after the other (so that two run_queue passes can hand the
\* same job to two executors); no cancel request.
EventRequests ==
    {r \in DiscoveryRequests : r.scheduled_at = NoTime}

EventNext ==
    \/ \E j \in JobIds : execute_job_get(j)
    \/ \E j \in JobIds : execute_job_running(j)
    \/ \E j \in JobIds : execute_job_status(j)
    \/ \E j \in JobIds : execute_job_results(j)
    \/ \E p \in JobIds : run_queue_fetch(p)
    \/ \E p \in JobIds : run_queue_step(p)
    \/ \E p \in JobIds : run_queue_return(p)
    \/ resume_fetch
    \/ \E body \in EventRequests : create_job(body)

EventInit ==
    /\ InitWith(1)
    /\ \A j \in JobIds : status[j] = Absent
    /\ max_threads = MaxThreads

EventSpec == EventInit /\ [][EventNext]_vars

\* One call of run_queue on a store that holds queued and finished jobs,
\* with every permit free:
\* the pass and the executors it spawns, and nothing else that takes or
\* gives back a permit.  The tasks are scheduled fairly.
QueueNext ==
    \/ \E j \in JobIds : execute_job_get(j)
    \/ \E j \in JobIds : execute_job_running(j)
    \/ \E j \in JobIds : execute_job_status(j)
    \/ \E j \in JobIds : execute_job_results(j)
    \/ run_queue_fetch(1)
    \/ run_queue_step(1)
    \/ run_queue_return(1)

QueueInit ==
    /\ \E n \in 0..MaxJobs :
         /\ status \in [JobIds -> {"queued", "completed", Absent}]
         /\ \A j \in JobIds : status[j] # Absent <=> j <= n
         /\ priority \in [JobIds -> Priorities]
         /\ \A j \in JobIds : j > n => priority[j] = "NORMAL"
    /\ scheduled_at = [j \in JobIds |-> NoTime]
    /\ results = [j \in JobIds |-> None]
    /\ now = 0
    /\ max_threads \in 1..MaxThreads
    /\ permits = max_threads
    /\ execs = [e \in ExecStates |-> 0]
    /\ passes = [j \in JobIds |-> IF j = 1 THEN [pc |-> "spawned", snap |-> <<>>, k |-> 0]
                                  ELSE NoPass]
    /\ disp = [pc |-> "sleep", q |-> <<>>]
    /\ rec = [pc |-> "done", q |-> <<>>, found |-> {}]
    /\ cancels = {}
    /\ wroteRunning = {}
    /\ job_type = [j \in JobIds |-> "discovery"]
    /\ receivers = 0
    /\ bus = [j \in JobIds |-> <<>>]
    /\ rejected = NoAnswer
    /\ cancelled_queued = {}
    /\ SubIdle

QueueSpec == QueueInit /\ [][QueueNext]_vars /\ Fairness

\* The variables of the jobs, their tasks and the handlers.
job_vars == <<status, priority, results, scheduled_at, now, max_threads, permits,
              execs, passes, disp, rec, cancels, wroteRunning, job_type, receivers,
              bus, rejected, cancelled_queued>>

(* ----------------------- calls on a Host value ------------------------- *)

Host_add_port(number, protocol, st) ==
    /\ host' = add_port(host, number, protocol, st)
    /\ UNCHANGED <<job_vars, hosts, net, config, disc, scan, chan, ws>>

Host_add_banner(banner) ==
    /\ host' = add_banner(host, banner)
    /\ UNCHANGED <<job_vars, hosts, net, config, disc, scan, chan, ws>>

HostNext ==
    \/ \E number \in PortNumbers, protocol \in Protocols, st \in PortStatuses :
          Host_add_port(number, protocol, st)
    \/ \E banner \in Banners : Host_add_banner(banner)

\* The runs that apply add_port and add_banner, in any order and with any
\* arguments, to a Host that starts as Host::new.
HostSpec == ApiInit /\ [][HostNext]_vars

(* ----------------------- the broadcast channel ------------------------ *)

\* The oldest message the channel still holds.
oldest == IF chan.sent > BusCapacity THEN chan.sent - BusCapacity + 1 ELSE 1

\* Receiver::recv on a receiver at position next: the message at that
\* position, or Lagged when the channel has dropped it.
recv_ok(next) == next >= oldest

\* handle_socket: the connection subscribes to the broadcaster.
handle_socket ==
    /\ ws.state = "none"
    /\ ws' = [ws EXCEPT !.state = "open", !.next = chan.sent + 1]
    /\ receivers' = receivers + 1
    /\ UNCHANGED <<status, priority, results, scheduled_at, now, max_threads, permits,
                   execs, passes, disp, rec, cancels, wroteRunning, job_type, bus,
                   rejected, cancelled_queued, hosts, host, net, config, disc, scan, chan>>

\* Sender::send by any producer: the message enters the channel, whatever
\* the receivers have read.
Sender_send ==
    /\ chan.sent < MaxSent
    /\ chan' = [chan EXCEPT !.sent = @ + 1]
    /\ UNCHANGED <<job_vars, hosts, host, net, config, disc, scan, ws>>

\* One turn of the forwarding loop: `while let Ok(msg) = rx.recv().await`
\* forwards the message; on Err the loop ends, the task finishes and
\* handle_socket returns, which closes the connection and drops the receiver.
send_task_recv ==
    /\ ws.state = "open"
    /\ ws.next <= chan.sent
    /\ IF recv_ok(ws.next)
       THEN /\ ws' = [ws EXCEPT !.next = @ + 1, !.got = Append(@, ws.next)]
            /\ UNCHANGED receivers
       ELSE /\ ws' = [ws EXCEPT !.state = "closed", !.lagged = oldest - ws.next]
            /\ receivers' = receivers - 1
    /\ UNCHANGED <<status, priority, results, scheduled_at, now, max_threads, permits,
                   execs, passes, disp, rec, cancels, wroteRunning, job_type, bus,
                   rejected, cancelled_queued, hosts, host, net, config, disc, scan, chan>>

\* The client closes: recv_task ends and handle_socket returns.
recv_task_close ==
    /\ ws.state = "open"
    /\ ws' = [ws EXCEPT !.state = "closed"]
    /\ receivers' = receivers - 1
    /\ UNCHANGED <<status, priority, results, scheduled_at, now, max_threads, permits,
                   execs, passes, disp, rec, cancels, wroteRunning, job_type, bus,
                   rejected, cancelled_queued, hosts, host, net, config, disc, scan, chan>>

BusNext ==
    \/ handle_socket
    \/ Sender_send
    \/ send_task_recv
    \/ recv_task_close

\* The runs of the channel: producers send, one client connects, is
\* forwarded to at any pace and may leave.
BusInit ==
    /\ InitWith(0)
    /\ \A j \in JobIds : status[j] = Absent
    /\ max_threads = 1

BusSpec == BusInit /\ [][BusNext]_vars

\* The runs of the executors, of cancel_job and of recovery on the jobs left
\* by the previous process, with a client that connects and leaves at any
\* moment: sends fail before it connects and after it left.  One permit,
\* no new job, no schedule and no clock.
BusJobNext ==
    \/ \E j \in JobIds : resume_task_requeue(j)
    \/ \E j \in JobIds : execute_job_get(j)
    \/ \E j \in JobIds : execute_job_running(j)
    \/ \E j \in JobIds : execute_job_status(j)
    \/ \E j \in JobIds : execute_job_results(j)
    \/ resume_fetch
    \/ resume_step
    \/ \E j \in JobIds : cancel_job_get(j)
    \/ \E j \in JobIds : cancel_job_update(j)
    \/ handle_socket
    \/ recv_task_close

BusJobInit ==
    /\ FairInit
    /\ max_threads = 1
    /\ \A j \in JobIds : status[j] # "scheduled"

BusJobSpec == BusJobInit /\ [][BusJobNext]_vars

(* --------------------- run_discovery (the runner) ---------------------- *)

\* The config.target a discovery job may carry.
DiscoveryTargets == {NoTarget} \cup {SomeTarget(n) : n \in Networks}

\* The addresses of a list.
Range(s) == {s[i] : i \in 1..Len(s)}

\* run_discovery up to the spawn loop of discover_hosts, for a job that
\* carries job_target: the target network is taken from the stored
\* configuration, the counter starts at 0 and the semaphore is created with
\* the capacity MAX_DISCOVER_THREADS.
run_discovery_start(job_target) ==
    /\ disc.pc \in {"idle", "done"}
    /\ disc.runs < MaxDiscoveries
    /\ \E cap \in 1..MaxDiscoverThreads :
         disc' = [pc |-> "spawn", job_target |-> job_target,
                  network |-> run_discovery_target(config),
                  q |-> network_hosts(run_discovery_target(config)),
                  hosts_found |-> 0, target_network |-> None, runs |-> disc.runs + 1,
                  max_discover_threads |-> cap, sem |-> cap,
                  tasks |-> [ip \in Range(network_hosts(run_discovery_target(config))) |->
                               [pc |-> "unspawned", read |-> 0]],
                  locked |-> FALSE, count |-> 0, sent |-> <<>>]
    /\ UNCHANGED <<job_vars, hosts, host, net, config, scan, chan, ws>>

\* The spawn loop of discover_hosts: one task per address.
discover_hosts_spawn ==
    /\ disc.pc = "spawn"
    /\ disc' = IF disc.q = <<>> THEN [disc EXCEPT !.pc = "join"]
               ELSE [disc EXCEPT !.q = Tail(@), !.tasks[Head(disc.q)].pc = "acquire"]
    /\ UNCHANGED <<job_vars, hosts, host, net, config, scan, chan, ws>>

\* A probe task: sem.acquire_owned().await returns.
probe_task_acquire_unlimited(ip) ==
    /\ disc.pc \in {"spawn", "join"}
    /\ ip \in DOMAIN disc.tasks
    /\ disc.tasks[ip].pc = "acquire"
    /\ disc' = [disc EXCEPT !.tasks[ip].pc = "probe"]
    /\ UNCHANGED <<job_vars, hosts, host, net, config, scan, chan, ws>>

probe_task_acquire(ip) ==
    /\ disc.pc \in {"spawn", "join"}
    /\ ip \in DOMAIN disc.tasks
    /\ disc.tasks[ip].pc = "acquire"
    /\ disc.sem > 0
    /\ disc' = [disc EXCEPT !.sem = @ - 1, !.tasks[ip].pc = "probe"]
    /\ UNCHANGED <<job_vars, hosts, host, net, config, scan, chan, ws>>

\* A probe task: is_host_alive; an address that is alive is upserted as
\* Host::new and host_found is sent; the task of an address that is not
\* ends and drops its permit.
probe_task_probe(ip) ==
    /\ disc.pc \in {"spawn", "join"}
    /\ ip \in DOMAIN disc.tasks
    /\ disc.tasks[ip].pc = "probe"
    /\ IF is_host_alive(ip)
       THEN /\ hosts' = upsert_host(hosts, Host_new(ip))
            /\ disc' = [disc EXCEPT !.tasks[ip].pc = "lock",
                                    !.sent = Append(@, <<"host_found", ip>>)]
       ELSE /\ disc' = [disc EXCEPT !.tasks[ip].pc = "finished", !.sem = @ + 1]
            /\ UNCHANGED hosts
    /\ UNCHANGED <<job_vars, host, net, config, scan, chan, ws>>

\* A probe task: hosts_found.lock().await returns and the counter is read.
probe_task_lock_unguarded(ip) ==
    /\ disc.pc \in {"spawn", "join"}
    /\ ip \in DOMAIN disc.tasks
    /\ disc.tasks[ip].pc = "lock"
    /\ disc' = [disc EXCEPT !.locked = TRUE,
                            !.tasks[ip] = [pc |-> "increment", read |-> disc.count]]
    /\ UNCHANGED <<job_vars, hosts, host, net, config, scan, chan, ws>>

probe_task_lock(ip) ==
    /\ disc.pc \in {"spawn", "join"}
    /\ ip \in DOMAIN disc.tasks
    /\ disc.tasks[ip].pc = "lock"
    /\ ~disc.locked
    /\ disc' = [disc EXCEPT !.locked = TRUE,
                            !.tasks[ip] = [pc |-> "increment", read |-> disc.count]]
    /\ UNCHANGED <<job_vars, hosts, host, net, config, scan, chan, ws>>

\* A probe task: *count += 1; the guard and the permit are dropped and the
\* task ends.
probe_task_increment(ip) ==
    /\ disc.pc \in {"spawn", "join"}
    /\ ip \in DOMAIN disc.tasks
    /\ disc.tasks[ip].pc = "increment"
    /\ disc' = [disc EXCEPT !.count = disc.tasks[ip].read + 1, !.locked = FALSE,
                            !.sem = @ + 1,
                            !.tasks[ip] = [pc |-> "finished", read |-> 0]]
    /\ UNCHANGED <<job_vars, hosts, host, net, config, scan, chan, ws>>

\* Every task has been joined: discover_hosts reads the counter and returns
\* it, and run_discovery builds its results.
run_discovery_return ==
    /\ disc.pc = "join"
    /\ \A ip \in DOMAIN disc.tasks : disc.tasks[ip].pc = "finished"
    /\ disc' = [disc EXCEPT !.pc = "done", !.hosts_found = disc.count,
                            !.target_network = disc.network]
    /\ UNCHANGED <<job_vars, hosts, host, net, config, scan, chan, ws>>

(* --------------------- run_port_scan (the runner) ---------------------- *)

\* The host of the loop of run_port_scan.
scan_ip == scan.hosts_to_scan[scan.i]

\* The end of scan_host for a host with n open ports: the count is added,
\* scan_progress is sent and the loop goes to the next host.
scan_host_returned(n) ==
    [scan EXCEPT !.total = @ + n,
                 !.progress = Append(@, <<"scan_progress", scan_ip, n>>),
                 !.i = @ + 1, !.p = 1, !.open_ports = <<>>, !.fetched = NoHost,
                 !.pc = IF scan.i + 1 > Len(scan.hosts_to_scan) THEN "return" ELSE "port"]

\* host.add_port for each port found.
RECURSIVE add_ports(_, _)
add_ports(h, ports) ==
    IF ports = <<>> THEN h
    ELSE add_ports(add_port(h, Head(ports).number, Head(ports).protocol,
                            Head(ports).status), Tail(ports))

\* list_hosts and the early return without hosts.
run_port_scan_list ==
    /\ scan.pc \in {"idle", "done"}
    /\ scan.runs < MaxScans
    /\ \E s \in RowOrders({ip \in Ips : hosts[ip] # NoHost}) :
         scan' = IF is_empty(s)
                 THEN [NoScan EXCEPT !.pc = "done", !.runs = scan.runs + 1,
                                     !.result = <<[ok |-> FALSE, text |-> no_hosts_message]>>]
                 ELSE [NoScan EXCEPT !.pc = IF s = <<>> THEN "return" ELSE "port",
                                     !.runs = scan.runs + 1, !.hosts_to_scan = s,
                                     !.i = 1, !.p = 1]
    /\ UNCHANGED <<job_vars, hosts, host, net, config, disc, chan, ws>>

\* scan_host, one port: an open port is recorded and its banner grabbed; a
\* banner is handed to add_banner_to_host, which adds it to the Host it
\* read and stores nothing.
scan_host_port ==
    /\ scan.pc = "port"
    /\ scan.p <= Len(get_port_range(config))
    /\ LET port == get_port_range(config)[scan.p]
           banner == grab_banner(scan_ip, port)
       IN scan' = IF is_port_open(scan_ip, port)
                  THEN [scan EXCEPT
                          !.p = @ + 1,
                          !.open_ports = Append(@, [number |-> port,
                                                    protocol |-> infer_protocol(port),
                                                    status |-> "open"]),
                          !.banners = IF banner # <<>> /\ get_host(scan_ip) # NoHost
                                      THEN @ \cup {<<scan_ip, banner[1]>>}
                                      ELSE @]
                  ELSE [scan EXCEPT !.p = @ + 1]
    /\ UNCHANGED <<job_vars, hosts, host, net, config, disc, chan, ws>>

\* scan_host returns for a host without open ports.
scan_host_none ==
    /\ scan.pc = "port"
    /\ scan.p > Len(get_port_range(config))
    /\ scan.open_ports = <<>>
    /\ scan' = scan_host_returned(0)
    /\ UNCHANGED <<job_vars, hosts, host, net, config, disc, chan, ws>>

\* update_host_ports: get_host.
update_host_ports_get ==
    /\ scan.pc = "port"
    /\ scan.p > Len(get_port_range(config))
    /\ scan.open_ports # <<>>
    /\ scan' = [scan EXCEPT !.pc = "upsert", !.fetched = get_host(scan_ip)]
    /\ UNCHANGED <<job_vars, hosts, host, net, config, disc, chan, ws>>

\* update_host_ports: add_port for each port, update_last_seen and
\* upsert_host of the Host read (the addresses whose last_seen this scan has
\* refreshed are kept in refreshed); then scan_host returns.
update_host_ports_upsert ==
    /\ scan.pc = "upsert"
    /\ IF scan.fetched # NoHost
       THEN /\ hosts' = upsert_host(hosts, add_ports(scan.fetched[1], scan.open_ports))
            /\ scan' = [scan_host_returned(Len(scan.open_ports)) EXCEPT
                          !.upserts = @ + 1, !.refreshed = @ \cup {scan_ip}]
       ELSE /\ scan' = scan_host_returned(Len(scan.open_ports))
            /\ UNCHANGED hosts
    /\ UNCHANGED <<job_vars, host, net, config, disc, chan, ws>>

\* run_port_scan builds its results.
run_port_scan_return ==
    /\ scan.pc = "return"
    /\ scan' = [scan EXCEPT !.pc = "done",
                            !.result = <<[ok |-> TRUE, text |-> "payload"]>>]
    /\ UNCHANGED <<job_vars, hosts, host, net, config, disc, chan, ws>>

ScanNext ==
    \/ \E job_target \in DiscoveryTargets : run_discovery_start(job_target)
    \/ discover_hosts_spawn
    \/ \E ip \in Ips : probe_task_acquire(ip)
    \/ \E ip \in Ips : probe_task_probe(ip)
    \/ \E ip \in Ips : probe_task_lock(ip)
    \/ \E ip \in Ips : probe_task_increment(ip)
    \/ run_discovery_return
    \/ run_port_scan_list
    \/ scan_host_port
    \/ scan_host_none
    \/ update_host_ports_get
    \/ update_host_ports_upsert
    \/ run_port_scan_return

\* The runs of the runners: discovery jobs and a port-scan job at work on
\* the hosts table, on a network with any open ports and replies and with
\* or without a target network and a port range in the stored configuration.
ScanInit ==
    /\ JobInit(0)
    /\ \A j \in JobIds : status[j] = Absent
    /\ max_threads = 1
    /\ hosts = NoHosts
    /\ host = Host_new("10.0.0.1")
    /\ net \in [open : [Ips -> SUBSET {80, 22}], reply : [{80, 22} -> Replies]]
    /\ config \in [target_network : {NoTarget, SomeTarget("10.0.0.0/24")},
                  port_range : {<<>>, << <<22>> >>}]
    /\ disc = NoDisc
    /\ scan = NoScan
    /\ chan = [sent |-> 0]
    /\ ws = NoSocket

ScanSpec == ScanInit /\ [][ScanNext]_vars

\* The addresses of the network of the runs of discover_hosts alone.
DiscoverIps == Range(network_hosts("172.16.0.0/24"))

DiscoverNext ==
    \/ run_discovery_start(NoTarget)
    \/ discover_hosts_spawn
    \/ \E ip \in DiscoverIps : probe_task_acquire(ip)
    \/ \E ip \in DiscoverIps : probe_task_probe(ip)
    \/ \E ip \in DiscoverIps : probe_task_lock(ip)
    \/ \E ip \in DiscoverIps : probe_task_increment(ip)
    \/ run_discovery_return

\* The runs of discover_hosts alone: discovery jobs, one after the other,
\* on a network of three addresses of which any may be alive, with a
\* semaphore of any capacity 1..MaxDiscoverThreads.  The spawned tasks and
\* the function that joins them are scheduled fairly.
DiscoverInit ==
    /\ JobInit(0)
    /\ \A j \in JobIds : status[j] = Absent
    /\ max_threads = 1
    /\ hosts = [ip \in DiscoverIps |-> NoHost]
    /\ host = Host_new("10.0.0.1")
    /\ net \in [open : [DiscoverIps -> {{}, {80}}], reply : {[port \in {80, 22} |-> NoReply]}]
    /\ config = [target_network |-> SomeTarget("172.16.0.0/24"), port_range |-> <<>>]
    /\ disc = NoDisc
    /\ scan = NoScan
    /\ chan = [sent |-> 0]
    /\ ws = NoSocket

DiscoverFairness ==
    /\ WF_vars(discover_hosts_spawn)
    /\ \A ip \in DiscoverIps :
         /\ WF_vars(probe_task_acquire(ip))
         /\ WF_vars(probe_task_probe(ip))
         /\ WF_vars(probe_task_lock(ip))
         /\ WF_vars(probe_task_increment(ip))
    /\ WF_vars(run_discovery_return)

DiscoverSpec == DiscoverInit /\ [][DiscoverNext]_vars /\ DiscoverFairness

(* ------------------------------ claims --------------------------------- *)

\* Jobs whose stored status is "running" because an executor of this
\* process wrote it.
RunningHere == {j \in JobIds : status[j] = "running" /\ j \in wroteRunning}

\* A job whose stored "running" is left over from the previous process.
LeftoverRunning(j) == status[j] = "running" /\ j \notin wroteRunning

C2_TerminalNeverLeft ==
    [][\A j \in JobIds : status[j] \in Terminal => status'[j] = status[j]]_vars

\* The jobs a pass in progress has dispatched, and those it has not.
Dispatched(p) == {passes[p].snap[i] : i \in 1..passes[p].k}

NotDispatched(p) == {passes[p].snap[i] : i \in (passes[p].k + 1)..Len(passes[p].snap)}

InLoop(p) == passes[p].pc = "loop"

\* C3: in a run_queue pass no job is dispatched while a job of strictly
\* higher priority of the same snapshot has not been dispatched.
C3_HigherPriorityDispatchedFirst ==
    \A p \in JobIds : InLoop(p) =>
        \A a \in Dispatched(p), b \in NotDispatched(p) :
            priority_int(priority[b]) <= priority_int(priority[a])

C5_FifoWithinBand ==
    \A p \in JobIds : InLoop(p) =>
        \A a \in Dispatched(p), b \in NotDispatched(p) :
            priority[a] = priority[b] => created_at(a) < created_at(b)

\* C6: free permits + live executor tasks = MAX_THREADS, and with no live
\* executor task all MAX_THREADS permits are free.
C6_PermitsConserved ==
    /\ permits + NumExecs = max_threads
    /\ NumExecs = 0 => permits = max_threads

\* C6 witness: an executor task whose terminal writes failed has ended and
\* left its job in "running", its permit is free again, and another task
\* holds a permit.
C6_Witness ==
    /\ \E j \in RunningHere : ExecsOn(j) = 0
    /\ NumExecs = 1
    /\ permits = max_threads - 1

\* C7: every queued job eventually leaves "queued".
C7_QueuedEventuallyLeaves ==
    \A j \in JobIds : (status[j] = "queued") ~> (status[j] # "queued")

\* A scheduled job whose time has come.
Due(j) == status[j] = "scheduled" /\ scheduled_at[j] # NoTime /\ scheduled_at[j][1] <= now

C9_NoLeftoverAfterRecovery ==
    rec.pc = "done" => \A j \in rec.found : ~LeftoverRunning(j)

\* C10: every job found in "running" at process start eventually reaches a
\* terminal status after resume_incomplete_jobs has run.
C10_ResumedEventuallyTerminal ==
    \A j \in JobIds : (rec.pc = "done" /\ j \in rec.found) ~> (status[j] \in Terminal)

\* C11: a job's status becomes "completed" or "failed" only by a step from
\* "running": the status just before is never queued, scheduled or cancelled.
C11_FinishedOnlyFromRunning ==
    [][\A j \in JobIds :
          (status'[j] \in {"completed", "failed"} /\ status'[j] # status[j])
              => status[j] = "running"]_vars

\* C12: once "cancelled" is stored for a job whose runner is in progress,
\* the executor that runs it does not set the status to completed or failed.
C12_CancelOverridesCompletion ==
    [][\A j \in JobIds :
          (status[j] = "cancelled" /\ execs[<<j, "runner">>] > 0)
              => status'[j] \notin {"completed", "failed"}]_vars

\* C13: "cancelled" is written only over a stored status that is "queued"
\* or "running" at the moment of the write.
C13_CancelOnlyQueuedOrRunning ==
    [][\A j \in JobIds :
          (status'[j] = "cancelled" /\ status[j] # "cancelled")
              => Cancellable(status[j])]_vars

\* C14: results are written only with the job's transition to a terminal
\* status and at most once: a step that changes a job's results finds them
\* unset and finds (and leaves) the job in a terminal status.
C14_ResultsOnceAtTerminal ==
    [][\A j \in JobIds :
          results'[j] # results[j]
              => /\ results[j] = None
                 /\ status[j] \in Terminal
                 /\ status'[j] \in Terminal]_vars

\* No writer other than one executor works on job j.
NoConcurrentWriter(j) == ExecsOn(j) <= 1 /\ j \notin cancels

C16_FutureJobsAreScheduled ==
    \A j \in JobIds :
        (status[j] # Absent /\ scheduled_at[j] # NoTime /\ scheduled_at[j][1] > now)
            => status[j] = "scheduled"

\* C17: get_scheduled_jobs_due(t) answers exactly the jobs in status
\* "scheduled" whose scheduled_at is at most t, a job scheduled at t included.
C17_DueQueryExact ==
    \A t \in 0..MaxTime :
        InMemoryRepository_get_scheduled_jobs_due(t) =
            {j \in JobIds : /\ status[j] = "scheduled"
                            /\ scheduled_at[j] # NoTime
                            /\ scheduled_at[j][1] <= t}

\* C18: create_job with an id that is already stored leaves the store
\* unchanged, so that no id occurs twice in it.
C18_IdsUnique ==
    \A id \in JobIds : status[id] # Absent =>
        LET after == InMemoryRepository_create_job(InMemoryRepository_jobs, id) IN
            /\ after = InMemoryRepository_jobs
            /\ \A a, b \in 1..Len(after) : after[a] = after[b] => a = b

\* The targets that are a CIDR: an IPv4 address and a prefix of at most 32.
ValidTargets == {SomeTarget([octet |-> 10, prefix |-> 24])}

Events(j) == SelectSeq(bus[j], LAMBDA m : m[1] # "starting")

C30_CancelledQueuedNeverRun ==
    [][\A j \in JobIds : j \in cancelled_queued =>
          /\ ~(status'[j] = "running" /\ status[j] # "running")
          /\ execs'[<<j, "runner">>] <= execs[<<j, "runner">>]]_vars

\* The number of messages of kind k among the messages about job j.
Count(j, k) == Len(SelectSeq(bus[j], LAMBDA m : m[1] = k))

\* C29: an executor that has re-read its job goes on to write "running" only
\* if the status it read is "queued" or "scheduled"; otherwise (another
\* status, or a get_job that answers no row or an error) its step writes no
\* status and no results, sends no job_running, job_completed or job_failed
\* message, ends the task and gives its permit back.
C29_AdmissionGuardsExecution ==
    [][\A j \in JobIds :
          execs'[<<j, "get_job">>] < execs[<<j, "get_job">>] =>
              /\ status[j] \notin {"queued", "scheduled"} =>
                     execs'[<<j, "admitted">>] = execs[<<j, "admitted">>]
              /\ execs'[<<j, "admitted">>] = execs[<<j, "admitted">>] =>
                     /\ execs' = Ended(j, "get_job")
                     /\ permits' = permits + 1
                     /\ UNCHANGED <<status, results, wroteRunning>>
                     /\ Events(j)' = Events(j)]_vars

\* C29 witness: a second executor of a finished job was started and not
\* admitted (one job_running for two start messages), and the executor of
\* another job ended on a failed get_job, leaving the job queued; every
\* permit is back.
C29_Witness ==
    \E a, b \in JobIds :
        /\ status[a] \in {"completed", "failed"}
        /\ Count(a, "starting") = 2 /\ Count(a, "job_running") = 1
        /\ status[b] = "queued"
        /\ Count(b, "starting") = 1 /\ Count(b, "job_running") = 0
        /\ NumExecs = 0
        /\ permits = max_threads

\* C23: after any sequence of add_port calls the ports are sorted ascending
\* by (number, protocol) with at most one entry per (number, protocol); a
\* call with a (number, protocol) already present changes the status of that
\* entry only, to the status given, and not the length of the list, and a
\* call with a new one makes the list one longer.
C23_PortsSortedUnique ==
    [][\A number \in PortNumbers, protocol \in Protocols, st \in PortStatuses :
          Host_add_port(number, protocol, st) =>
              /\ \A a, b \in 1..Len(host'.ports) : a < b =>
                    \/ host'.ports[a].number < host'.ports[b].number
                    \/ /\ host'.ports[a].number = host'.ports[b].number
                       /\ str_cmp(host'.ports[a].protocol, host'.ports[b].protocol) = "Less"
              /\ IF \E i \in 1..Len(host.ports) :
                        host.ports[i].number = number /\ host.ports[i].protocol = protocol
                 THEN /\ Len(host'.ports) = Len(host.ports)
                      /\ \A i \in 1..Len(host.ports) :
                            host'.ports[i] =
                                IF host.ports[i].number = number
                                   /\ host.ports[i].protocol = protocol
                                THEN [host.ports[i] EXCEPT !.status = st]
                                ELSE host.ports[i]
                 ELSE /\ Len(host'.ports) = Len(host.ports) + 1
                      /\ \E i \in 1..Len(host'.ports) :
                            host'.ports[i] = [number |-> number, protocol |-> protocol,
                                              status |-> st]]_vars

\* C23 witness: every (number, protocol) has been added, and port 22/tcp,
\* added again with another status, is closed among open ports.
C23_Witness ==
    /\ Len(host.ports) = Cardinality(PortNumbers) * Cardinality(Protocols)
    /\ \E i \in 1..Len(host.ports) :
          /\ host.ports[i] = [number |-> 22, protocol |-> "tcp", status |-> "closed"]
          /\ \A k \in 1..Len(host.ports) : k # i => host.ports[k].status = "open"

\* C24: add_banner with a banner already present leaves the banners as they
\* are and with a new banner appends it, so that the banners never hold a
\* duplicate and stay in the order of first insertion.
C24_BannersOnceInOrder ==
    [][\A banner \in Banners :
          Host_add_banner(banner) =>
              /\ \A a, b \in 1..Len(host'.banners) :
                    host'.banners[a] = host'.banners[b] => a = b
              /\ host'.banners =
                    IF \E i \in 1..Len(host.banners) : host.banners[i] = banner
                    THEN host.banners
                    ELSE host.banners \o <<banner>>]_vars

\* C24 witness: every banner has been added, "Apache" first.
C24_Witness ==
    /\ Len(host.banners) = Cardinality(Banners)
    /\ host.banners[1] = "Apache"

PortKeys(h) == {<<h.ports[i].number, h.ports[i].protocol>> : i \in 1..Len(h.ports)}

BannerSet(h) == {h.banners[i] : i \in 1..Len(h.banners)}

\* Hosts an upsert may be called with: a Host::new, as discovery does, and a
\* host with a port and a banner.
UpsertArgs(ip) ==
    {Host_new(ip), add_banner(add_port(Host_new(ip), 80, "http", "open"), "Apache")}

\* C22: an upsert of a host whose ip is stored leaves one host with that ip
\* whose ports are the union of the stored and the given ports and whose
\* banners the union of the stored and the given banners, in the SQL and in
\* the in-memory repository.
C22_UpsertMerges ==
    \A ip \in Ips : hosts[ip] # NoHost =>
        \A h \in UpsertArgs(ip) :
            LET old == hosts[ip][1]
                new == upsert_host(hosts, h)[ip][1]
                mem == InMemoryRepository_upsert_host(InMemoryRepository_hosts, h)
            IN /\ PortKeys(new) = PortKeys(old) \cup PortKeys(h)
               /\ BannerSet(new) = BannerSet(old) \cup BannerSet(h)
               /\ Cardinality({i \in 1..Len(mem) : mem[i].ip = ip}) = 1
               /\ \A i \in 1..Len(mem) : mem[i].ip = ip =>
                     /\ PortKeys(mem[i]) = PortKeys(old) \cup PortKeys(h)
                     /\ BannerSet(mem[i]) = BannerSet(old) \cup BannerSet(h)

\* C25: the network a discovery job scans, and the target_network of its
\* results, is the config.target of the job when it has one, else the
\* target_network of the stored configuration when it has one, else
\* 192.168.68.0/24.
C25_DiscoveryTarget ==
    disc.pc # "idle" =>
        LET expected == IF disc.job_target # NoTarget THEN disc.job_target[1]
                        ELSE IF config.target_network # NoTarget
                             THEN config.target_network[1]
                             ELSE "192.168.68.0/24"
        IN /\ disc.network = expected
           /\ disc.pc = "done" => disc.target_network = expected

\* The hosts scan_host has returned for.
Processed == {scan.progress[i][2] : i \in 1..Len(scan.progress)}

\* C26: a non-empty banner grabbed on an open port of a host is among the
\* stored banners of the host once the host has been processed, and the
\* empty banner is never among the stored banners.
C26_BannerPersisted ==
    /\ \A g \in scan.banners :
          (g[1] \in Processed /\ g[2] # "") =>
              /\ hosts[g[1]] # NoHost
              /\ contains(hosts[g[1]][1].banners, g[2])
    /\ \A ip \in Ips : hosts[ip] # NoHost => ~contains(hosts[ip][1].banners, "")

\* C27: a subscriber that fell more than the capacity behind loses the
\* oldest messages only: its connection is not closed because of the lag (it
\* closes only when the client leaves), so that it goes on receiving; and a
\* send is possible whatever the receiver has read.
C27_LaggingSubscriberStays ==
    /\ ws.state = "closed" => ws.lagged = 0
    /\ chan.sent < MaxSent => ENABLED Sender_send

\* C28: what the executors, cancel_job and recovery write does not depend on
\* the outcome of their sends: with or without a subscriber, a task at a
\* given position can take its step, and the step writes the same status or
\* results and leaves the task at the same next position.
C28_SendFailuresIgnored ==
    [][\A j \in JobIds :
          /\ execs[<<j, "requeue">>] > 0 => ENABLED resume_task_requeue(j)
          /\ execs[<<j, "admitted">>] > 0 => ENABLED execute_job_running(j)
          /\ execs[<<j, "runner">>] > 0 => ENABLED execute_job_status(j)
          /\ execs[<<j, "ok_results">>] + execs[<<j, "err_results">>] > 0 =>
                ENABLED execute_job_results(j)
          /\ j \in cancels => ENABLED cancel_job_update(j)
          /\ execs'[<<j, "requeue">>] < execs[<<j, "requeue">>] =>
                /\ status'[j] = "queued"
                /\ execs' = Moved(j, "requeue", "get_job")
          /\ execs'[<<j, "admitted">>] < execs[<<j, "admitted">>] =>
                /\ status'[j] = "running"
                /\ execs' = Moved(j, "admitted", "runner")
          /\ execs'[<<j, "runner">>] < execs[<<j, "runner">>] =>
                \/ /\ status'[j] = "completed"
                   /\ execs' = Moved(j, "runner", "ok_results")
                \/ /\ status'[j] = "failed"
                   /\ execs' = Moved(j, "runner", "err_results")
          /\ execs'[<<j, "ok_results">>] < execs[<<j, "ok_results">>] =>
                /\ results'[j] = "payload"
                /\ permits' = permits + 1
          /\ execs'[<<j, "err_results">>] < execs[<<j, "err_results">>] =>
                /\ results'[j] = "error"
                /\ permits' = permits + 1
          /\ (j \in cancels /\ j \notin cancels') => status'[j] = "cancelled"]_vars

\* C28 witness: two jobs were run to the end with the same writes, one
\* while the client was connected (its messages are all there) and one whose
\* sends all failed.
C28_Witness ==
    \E a, b \in JobIds :
        /\ status[a] = "completed" /\ results[a] = "payload"
        /\ Events(a) = << <<"job_running", a>>, <<"job_completed", a>> >>
        /\ status[b] = "completed" /\ results[b] = "payload"
        /\ Events(b) = <<>>
        /\ NumExecs = 0

CountIn(j, n, ks) == Len(SelectSeq(SubSeq(bus[j], 1, n), LAMBDA m : m[1] \in ks))

\* The executor tasks of job j between their job_running message and their
\* job_completed or job_failed message.
Executing(j) ==
    execs[<<j, "runner">>] + execs[<<j, "ok_results">>] + execs[<<j, "err_results">>]

Min(a, b) == IF a <= b THEN a ELSE b

\* The jobs of a snapshot.
Snapshot(p) == {passes[p].snap[i] : i \in 1..Len(passes[p].snap)}

Probing == {ip \in DOMAIN disc.tasks : disc.tasks[ip].pc \in {"probe", "lock", "increment"}}

\* The addresses whose probe task has probed them.
Probed == {ip \in DOMAIN disc.tasks : disc.tasks[ip].pc \in {"lock", "increment", "finished"}}

Alive == {ip \in DOMAIN disc.tasks : is_host_alive(ip)}

\* C35: discover_hosts returns only when every probe task has ended; the
\* counter always equals the number of ended tasks that found their host
\* alive, so no increment is lost, and the hosts_found returned equals the
\* number of addresses found alive and the number of host_found messages
\* sent, one for each of them.
C35_HostsFoundExact ==
    disc.pc # "idle" =>
        /\ ~disc.locked =>
              disc.count = Cardinality({ip \in Alive : disc.tasks[ip].pc = "finished"})
        /\ Range(disc.sent) = {<<"host_found", ip>> : ip \in Alive \cap Probed}
        /\ Len(disc.sent) = Cardinality(Alive \cap Probed)
        /\ disc.pc = "done" =>
              /\ \A ip \in DOMAIN disc.tasks : disc.tasks[ip].pc = "finished"
              /\ disc.hosts_found = Cardinality(Alive)
              /\ disc.hosts_found = Len(disc.sent)

\* C35 witness: a discovery with two permits has returned 3 for a network
\* of three addresses that are all alive.
C35_Witness ==
    /\ disc.pc = "done"
    /\ disc.max_discover_threads = 2
    /\ Cardinality(Alive) = 3
    /\ disc.hosts_found = 3
    /\ Len(disc.sent) = 3

\* The sum of the open_count values of a list of scan_progress messages.
RECURSIVE SumCounts(_)
SumCounts(progress) ==
    IF progress = <<>> THEN 0 ELSE Head(progress)[3] + SumCounts(Tail(progress))

\* C36: a port scan sends its scan_progress messages for the hosts of the
\* list it read, one per host and in list order, each after the ports of
\* that host were upserted and its last_seen refreshed, and all of them
\* before it returns its results; total_ports_found is the sum of the
\* open_count values.
C36_ScanProgressPerHost ==
    scan.pc \notin {"idle"} =>
        /\ Len(scan.progress) <= Len(scan.hosts_to_scan)
        /\ \A n \in 1..Len(scan.progress) :
              /\ scan.progress[n][1] = "scan_progress"
              /\ scan.progress[n][2] = scan.hosts_to_scan[n]
              /\ scan.progress[n][2] \in scan.refreshed
        /\ scan.total = SumCounts(scan.progress)
        /\ (scan.pc = "done" /\ scan.hosts_to_scan # <<>>) =>
              Len(scan.progress) = Len(scan.hosts_to_scan)

\* C37: at most one executor task of a job is between its write of
\* "running" and its terminal write.
C37_OneExecutorPerJob ==
    \A j \in JobIds : execs[<<j, "runner">>] <= 1

\* C38: when no executor and no cancel_job handler is at work on a job, a
\* stored "completed" goes with the payload of a runner and a stored
\* "failed" with the error message of a runner; and the last actor on a job
\* does not write results under a stored "cancelled".
C38_StatusAndResultsAgree ==
    /\ [](\A j \in JobIds : (ExecsOn(j) = 0 /\ j \notin cancels) =>
            /\ status[j] = "completed" => results[j] \in {"payload", "not_implemented"}
            /\ status[j] = "failed" => results[j] \in {"error", "Unknown job type: ping"})
    /\ [][\A j \in JobIds :
            ~(/\ results'[j] # results[j]
              /\ status[j] = "cancelled"
              /\ ExecsOn(j) = 1 /\ j \notin cancels)]_vars

\* C39: a job whose stored status is "completed" or "failed" has results
\* stored.
C39_FinishedHasResults ==
    \A j \in JobIds : status[j] \in {"completed", "failed"} => results[j] # None

\* C40: a handler that stores a new job as "scheduled" stores it with a
\* scheduled_at value.
C40_ScheduledHasTime ==
    [][\A j \in JobIds :
          (status[j] = Absent /\ status'[j] = "scheduled") => scheduled_at'[j] # NoTime]_vars

====
